---- MODULE Spec2Model ----
(***************************************************************************)
(* GridpackGenerator (svj/genprod/gridpackgenerator.py) as a state machine. *)
(*                                                                         *)
(* The object is single-threaded: pc names the method that is executing    *)
(* ("idle" between calls of the caller).  File and variable names are      *)
(* sequences of tokens, so that str.replace, glob patterns and endswith    *)
(* are computed on them rather than assumed.  The filesystem is the set of *)
(* directories the methods touch: the new model directory, the new input   *)
(* directory and its tar archive, the generation working directory         *)
(* (mg_genprod_dir) and the output directories.                            *)
(***************************************************************************)
EXTENDS Naturals, Sequences, FiniteSets, TLC

\* ------------------------------------------------------------------ bounds
\* Largest number of entries in the template input directory.
MaxTemplates == 2
\* Number of output directory paths a caller (or strftime) can name.
MaxOutDirs == 2

\* ------------------------------------------------------------- names, data
\* config.get_model_name(): one fixed model name per object.
MODEL == "SVJ_s_mMed1500"

OutDirs == 1..MaxOutDirs
\* output_dir = None: the default argument of the transfer methods.
None == 0
\* mg_genprod_dir as the directory of a path; an output directory is its number.
GenprodDir == 0

\* Entries of the generation working directory.
ScriptName == <<"gridpack_generation.sh">>
SubdirName == <<MODEL>>
LogName == <<MODEL, ".log">>
TarballName == <<MODEL, "_tarball.tar.xz">>
OtherLogName == <<"other_model", ".log">>

\* Entries a template input directory can hold.
TemplateDirNames ==
    { <<"modelname", "_run_card", ".dat">>,
      <<"modelname", "_proc_card", ".dat">>,
      <<MODEL, "_run_card", ".dat">>,
      <<"README", ".txt">> }

\* The text of a template: literal tokens and str.format fields.
TemplateContent(name) ==
    CASE name = <<"modelname", "_run_card", ".dat">>
            -> <<"nevents=", "{totalEvents}", "lhaid=", "{lhaid}">>
      [] name = <<"modelname", "_proc_card", ".dat">>
            -> <<"import model ", "{modelName}", "output ", "{modelName}">>
      [] name = <<MODEL, "_run_card", ".dat">>
            -> <<"pdlabel=", "{lhaid}">>
      [] OTHER -> <<"notes">>

FormatFields == {"{modelName}", "{totalEvents}", "{lhaid}"}

\* Files of a template model directory.
TemplateModelFiles == {"parameters.py", "write_param_card.py"}

\* The year -> lhaID table imported from .lhaIDs.
lhaIDs == [y \in {"2016", "2017", "2018"} |->
              IF y = "2016" THEN "263400" ELSE "306000"]

\* Years a configuration can name.
Years == {"2018", "2019"}

\* process_type values of a configuration, as token sequences.
ProcessTypes ==
    { <<"s", "-channel">>, <<"t", "-channel">>, <<"u", "-channel">>, <<"-channel">> }

\* Environment variables of the parent process.
to_unset ==
    <<"LD_LIBRARY_PATH", "FC", "COMPILER_PATH", "PYTHONPATH", "CC", "COMPILER_PATH", "CXX">>
EnvVars == {to_unset[i] : i \in 1..Len(to_unset)} \cup {"PATH"}

\* ---------------------------------------------------------------- helpers
Range(s) == {s[i] : i \in 1..Len(s)}

\* str.replace(old, new) on a token sequence: every token old becomes new.
Replace(s, old, new) == [i \in 1..Len(s) |-> IF s[i] = old THEN new ELSE s[i]]

\* str.replace(old, ''): the tokens old are dropped.
Remove(s, old) == SelectSeq(s, LAMBDA t : t # old)

\* str.endswith(suffix), the suffix being one token.
EndsWith(s, suffix) == Len(s) > 0 /\ s[Len(s)] = suffix

\* glob.glob(osp.join(dir, prefix + '*')): entries whose name starts with prefix.
GlobPrefix(dir, prefix) == {n \in dir : Len(n) > 0 /\ n[1] = prefix}

\* glob.glob(osp.join(dir, '*' + suffix)).
GlobSuffix(dir, suffix) == {n \in dir : EndsWith(n, suffix)}

\* All orders in which glob can return the entries of a set.
Orders(S) ==
    {s \in [1..Cardinality(S) -> S] : \A i, j \in 1..Cardinality(S) : i # j => s[i] # s[j]}

VARIABLES
    pc,         \* the method that is executing, "new" before __init__, "idle" between calls
    inRun,      \* TRUE while run_gridpack_generation is the caller of the stage
    trace,      \* stage events of the latest run_gridpack_generation call
    result,     \* outcome of the latest finished call: "ok" or the exception raised
    lastOp,     \* the latest call of the caller and its arguments
    config,     \* the configuration mapping
    self,       \* the attributes of the GridpackGenerator object
    templates,  \* entries of the template input directory
    modelDir,   \* new_model_dir: [exists, files]
    inputDir,   \* new_input_dir: [exists, files], files a function name -> text
    archive,    \* <model_name>.tar in new_input_dir: [exists, members]
    written,    \* out files written by the latest setup_input_dir call
    genprod,    \* entries of mg_genprod_dir
    subdir,     \* what mg_genprod_dir/<model_name> holds: "none" (no such
                \* directory), "old" (an earlier run's), "empty", "built"
    outDirs,    \* output directories: [exists, files] per path
    proc,       \* the generation subprocess of the latest compile_gridpack call
    environ,    \* os.environ: the variables set in the parent process
    dropped     \* the variables svj.core.utils.get_clean_env leaves out

vars == <<pc, inRun, trace, result, lastOp, config, self, templates, modelDir,
          inputDir, archive, written, genprod, subdir, outDirs, proc, environ,
          dropped>>


\* ------------------------------------------------- collaborators (svj.core)
\* svj.core.utils.create_directory(dir, force, must_not_exist): what it does to
\* a directory that exists or not.  "created": made new; "renewed": deleted and
\* made new; "kept": left as it is, returns False; "OSError": raised.
create_directory(exists, force, must_not_exist) ==
    IF ~exists THEN "created"
    ELSE IF force THEN "renewed"
    ELSE IF must_not_exist THEN "OSError"
    ELSE "kept"

\* svj.core.utils.get_clean_env(): a copy of the parent environment without the
\* variables the helper drops; which ones is not decided by this repository.
get_clean_env(env, drop) == env \ drop

EmptyDir == [exists |-> TRUE, files |-> {}]
AbsentDir == [exists |-> FALSE, files |-> {}]
NoArchive == [exists |-> FALSE, members |-> {}]
NoLogfile == [set |-> FALSE, dir |-> GenprodDir, name |-> <<>>]
NoEnv == [source |-> "none", vars |-> {}]
NoProc == [invocations |-> 0, exit |-> "none", env |-> NoEnv, built |-> {}]
\* A call: the method, whether run_gridpack_generation made it, and for a
\* transfer the destination _make_output_directory worked on.
Op(name) == [op |-> name, via_run |-> FALSE, dest |-> None]
StageOp(name, via) == [op |-> name, via_run |-> via, dest |-> None]

\* --------------------------------------------------------------- __init__
\* set_class_variables_from_config: the attributes read from the configuration.
set_class_variables_from_config(o, cfg) ==
    [o EXCEPT !.channel = Remove(cfg.process_type, "-channel"),
              !.year = cfg.year,
              !.n_events = IF cfg.n_events = "absent" THEN "1000" ELSE cfg.n_events]

\* define_paths with the last branch taken for every channel but 's'.
define_paths_default(o, cfg) ==
    IF o.channel = <<"s">> THEN
        [raised |-> "ok",
         self |-> [o EXCEPT !.med_type = "Zp",
                            !.template_model_dir = "DMsimp_SVJ_s_spin1_template",
                            !.template_input_dir =
                                IF cfg.lowmassZ
                                THEN "DMsimp_SVJ_s_spin1_lowmassZ_input_template"
                                ELSE "DMsimp_SVJ_s_spin1_input_template",
                            !.new_model_dir = TRUE]]
    ELSE [raised |-> "ok",
          self |-> [o EXCEPT !.med_type = "Phi",
                             !.template_model_dir = "DMsimp_SVJ_t_template",
                             !.template_input_dir = "DMsimp_SVJ_t_input_template",
                             !.new_model_dir = TRUE]]

\* define_paths: [raised, self].  An unknown channel raises ValueError before
\* new_model_dir is assigned; the attributes assigned so far stay.
define_paths(o, cfg) ==
    IF o.channel = <<"s">> THEN
        [raised |-> "ok",
         self |-> [o EXCEPT !.med_type = "Zp",
                            !.template_model_dir = "DMsimp_SVJ_s_spin1_template",
                            !.template_input_dir =
                                IF cfg.lowmassZ
                                THEN "DMsimp_SVJ_s_spin1_lowmassZ_input_template"
                                ELSE "DMsimp_SVJ_s_spin1_input_template",
                            !.new_model_dir = TRUE]]
    ELSE IF o.channel = <<"t">> THEN
        [raised |-> "ok",
         self |-> [o EXCEPT !.med_type = "Phi",
                            !.template_model_dir = "DMsimp_SVJ_t_template",
                            !.template_input_dir = "DMsimp_SVJ_t_input_template",
                            !.new_model_dir = TRUE]]
    ELSE [raised |-> "ValueError", self |-> o]

\* The attributes __init__ assigns before it reads the configuration.
NewObject ==
    [channel |-> <<>>, year |-> "unset", n_events |-> "unset",
     med_type |-> "unset", template_model_dir |-> "unset",
     template_input_dir |-> "unset", new_model_dir |-> FALSE,
     new_input_dir |-> FALSE, logfile |-> NoLogfile,
     force_renew_model_dir |-> TRUE, force_renew_input_dir |-> TRUE,
     force_renew_gridpack_dir |-> TRUE, cleanup_gp_generation_dir |-> TRUE]

\* The filesystem is not an argument of define_paths: it is left as it is.
FsUnchanged ==
    UNCHANGED <<templates, modelDir, inputDir, archive, genprod, subdir, outDirs,
                environ, dropped>>

\* __init__: a constructor that raises leaves no object behind.
Construct ==
    /\ pc = "new"
    /\ LET o == set_class_variables_from_config(NewObject, config)
           r == define_paths(o, config)
       IN /\ self' = r.self
          /\ result' = r.raised
          /\ pc' = IF r.raised = "ok" THEN "idle" ELSE "dead"
    /\ lastOp' = Op("__init__")
    /\ FsUnchanged
    /\ UNCHANGED <<inRun, trace, config, written, proc>>

\* The caller tweaks the channel of a constructed object and re-calls define_paths.
DefinePaths ==
    /\ pc = "idle"
    /\ \E p \in ProcessTypes :
         LET r == define_paths([self EXCEPT !.channel = Remove(p, "-channel")], config)
         IN /\ self' = r.self
            /\ result' = r.raised
    /\ lastOp' = Op("define_paths")
    /\ FsUnchanged
    /\ UNCHANGED <<pc, inRun, trace, config, written, proc>>

\* ------------------------------------------------ run_gridpack_generation
Stages == <<"setup_model_dir", "setup_input_dir", "compile_gridpack">>

\* run_gridpack_generation compiling before the input directory is set up.
NextStage_compile_first(stage) ==
    CASE stage = "setup_model_dir" -> "compile_gridpack"
      [] stage = "compile_gridpack" -> "setup_input_dir"
      [] OTHER -> "idle"

\* The stage run_gridpack_generation calls after `stage` returned normally.
NextStage(stage) ==
    CASE stage = "setup_model_dir" -> "setup_input_dir"
      [] stage = "setup_input_dir" -> "compile_gridpack"
      [] OTHER -> "idle"

\* A stage is entered by the caller (pc = "idle", inRun false) or by
\* run_gridpack_generation (pc names the stage).
Entered(stage) == (pc = "idle" /\ ~inRun) \/ (pc = stage /\ inRun)

\* Control after a stage: run_gridpack_generation goes on to the next call, an
\* exception unwinds to the caller.
Return(stage, res) ==
    /\ result' = res
    /\ pc' = IF inRun /\ res = "ok" THEN NextStage(stage) ELSE "idle"
    /\ inRun' = (inRun /\ res = "ok" /\ NextStage(stage) # "idle")

StartEvent(stage) == IF inRun THEN <<<<"start", stage>>>> ELSE <<>>
EndEvent(stage, res) ==
    IF inRun THEN <<<<IF res = "ok" THEN "done" ELSE "fail", stage>>>> ELSE <<>>

RunGridpackGeneration ==
    /\ pc = "idle"
    /\ pc' = Stages[1]
    /\ inRun' = TRUE
    /\ trace' = <<>>
    /\ lastOp' = Op("run_gridpack_generation")
    /\ FsUnchanged
    /\ UNCHANGED <<result, config, self, written, proc>>

\* -------------------------------------------------------- setup_model_dir
\* create_model_dir, then write_param_card; the parameter-card writer is the
\* toolchain's and may fail (card_ok).
SetupModelDir ==
    /\ Entered("setup_model_dir")
    /\ \E card_ok \in BOOLEAN :
         LET how == create_directory(modelDir.exists, self.force_renew_model_dir, FALSE)
             copied == IF how = "kept" THEN modelDir
                       ELSE [exists |-> TRUE, files |-> TemplateModelFiles]
             res == IF "write_param_card.py" \notin copied.files THEN "ImportError"
                    ELSE IF card_ok THEN "ok" ELSE "ToolchainError"
         IN /\ modelDir' = IF res = "ok"
                           THEN [copied EXCEPT !.files = @ \cup {"param_card.dat"}]
                           ELSE copied
            /\ Return("setup_model_dir", res)
            /\ trace' = trace \o StartEvent("setup_model_dir")
                               \o EndEvent("setup_model_dir", res)
    /\ lastOp' = StageOp("setup_model_dir", inRun)
    /\ UNCHANGED <<config, self, templates, inputDir, archive, written, genprod,
                   subdir, outDirs, proc, environ, dropped>>


\* -------------------------------------------------------- setup_input_dir
\* str.format(modelName=..., totalEvents=..., lhaid=...) on a template's text.
fill_template(card, model_name, total_events, lhaid) ==
    [i \in 1..Len(card) |->
        CASE card[i] = "{modelName}" -> model_name
          [] card[i] = "{totalEvents}" -> total_events
          [] card[i] = "{lhaid}" -> lhaid
          [] OTHER -> card[i]]

\* open(out_file, 'w') and write: the file is made or overwritten.
WriteFile(files, name, text) ==
    {f \in files : f.name # name} \cup {[name |-> name, text |-> text]}

\* The loop body with the out file opened for writing before its contents
\* are computed.
ProcessTemplate_open_first(st, template, o) ==
    LET out_file == Replace(template, "modelname", MODEL)
        opened == [st EXCEPT !.files = WriteFile(@, out_file, <<>>),
                             !.written = @ \cup {out_file}]
    IN IF o.year \notin DOMAIN lhaIDs
       THEN [opened EXCEPT !.err = "KeyError"]
       ELSE [opened EXCEPT !.files =
                WriteFile(@, out_file,
                          fill_template(TemplateContent(template), MODEL, o.n_events,
                                        lhaIDs[o.year]))]

\* One pass of the loop over the templates, st = [files, written, err].  The
\* arguments of fill_template, lhaIDs[self.year] among them, are evaluated
\* before the out file is opened.
ProcessTemplate(st, template, o) ==
    LET out_file == Replace(template, "modelname", MODEL)
    IN IF o.year \notin DOMAIN lhaIDs
       THEN [st EXCEPT !.err = "KeyError"]
       ELSE LET out_contents ==
                    fill_template(TemplateContent(template), MODEL, o.n_events,
                                  lhaIDs[o.year])
            IN [st EXCEPT !.files = WriteFile(@, out_file, out_contents),
                          !.written = @ \cup {out_file}]

RECURSIVE FillAll(_, _, _, _)
FillAll(order, i, st, o) ==
    IF i > Len(order) \/ st.err # "ok" THEN st
    ELSE FillAll(order, i + 1, ProcessTemplate(st, order[i], o), o)

\* Path of a member of the tar archive, relative to its root_dir.
ModelPath(file) == <<MODEL, file>>
InputPath(name) == <<MODEL, "_input">> \o name

\* shutil.make_archive(base_name = new_input_dir/model_name, format = 'tar',
\* root_dir = mg_model_dir, base_dir = model_name): the tar file is opened in
\* the input directory and base_dir, the model directory, is added to it.
make_archive(mdir) ==
    IF mdir.exists
    THEN [err |-> "ok",
          archive |-> [exists |-> TRUE, members |-> {ModelPath(f) : f \in mdir.files}]]
    ELSE [err |-> "OSError", archive |-> [exists |-> TRUE, members |-> {}]]

SetupInputDir ==
    /\ Entered("setup_input_dir")
    /\ \E order \in Orders(GlobSuffix(templates, ".dat")) :
         LET how == create_directory(inputDir.exists, self.force_renew_input_dir, FALSE)
             dir0 == IF how = "kept" THEN inputDir ELSE EmptyDir
             arch0 == IF how = "kept" THEN archive ELSE NoArchive
             st == FillAll(order, 1,
                           [files |-> dir0.files, written |-> {}, err |-> "ok"], self)
             tar == make_archive(modelDir)
             res == IF st.err # "ok" THEN st.err ELSE tar.err
         IN /\ inputDir' = [exists |-> TRUE, files |-> st.files]
            /\ written' = st.written
            /\ archive' = IF st.err = "ok" THEN tar.archive ELSE arch0
            /\ Return("setup_input_dir", res)
            /\ trace' = trace \o StartEvent("setup_input_dir")
                               \o EndEvent("setup_input_dir", res)
    /\ self' = [self EXCEPT !.new_input_dir = TRUE]
    /\ lastOp' = StageOp("setup_input_dir", inRun)
    /\ UNCHANGED <<config, templates, modelDir, genprod, subdir, outDirs, proc,
                   environ, dropped>>


\* ------------------------------------------------------- compile_gridpack
\* os.environ.copy() with the variables of to_unset deleted.
SanitizedEnv(env) == env \ Range(to_unset)

\* compile_gridpack checking for the script after the subdirectory is made.
compile_prepare_late_assert(o, gp, sd) ==
    LET o1 == [o EXCEPT !.logfile =
                  [set |-> TRUE, dir |-> GenprodDir, name |-> LogName]]
        how == create_directory(SubdirName \in gp, o.force_renew_gridpack_dir, TRUE)
        made == [self |-> o1, genprod |-> gp \cup {SubdirName}, subdir |-> "empty"]
    IN IF how = "OSError"
       THEN [res |-> "OSError", self |-> o1, genprod |-> gp, subdir |-> sd]
       ELSE IF ScriptName \notin gp
       THEN [res |-> "AssertionError"] @@ made
       ELSE IF ~o.new_input_dir
       THEN [res |-> "AttributeError"] @@ made
       ELSE [res |-> "ok"] @@ made

\* compile_gridpack up to the call of the subprocess: [res, self, genprod,
\* subdir].  The assertion comes first; self.logfile is assigned before the
\* per-run subdirectory is made (emptied, if it was there and
\* force_renew_gridpack_dir is set); self.new_input_dir is read after it.
compile_prepare(o, gp, sd) ==
    IF ScriptName \notin gp
    THEN [res |-> "AssertionError", self |-> o, genprod |-> gp, subdir |-> sd]
    ELSE LET o1 == [o EXCEPT !.logfile =
                        [set |-> TRUE, dir |-> GenprodDir, name |-> LogName]]
             how == create_directory(SubdirName \in gp, o.force_renew_gridpack_dir, TRUE)
             made == [self |-> o1, genprod |-> gp \cup {SubdirName},
                      subdir |-> "empty"]
         IN IF how = "OSError"
            THEN [res |-> "OSError", self |-> o1, genprod |-> gp, subdir |-> sd]
            ELSE IF ~o.new_input_dir
            THEN [res |-> "AttributeError"] @@ made
            ELSE [res |-> "ok"] @@ made

\* The env keyword argument of run_multiple_commands: the return value of
\* get_clean_env(), not the local `env` (built).
subprocess_env(built, clean) == [source |-> "get_clean_env()", vars |-> clean]

CompileGridpack ==
    /\ Entered("compile_gridpack")
    /\ LET r == compile_prepare(self, genprod, subdir)
       IN   /\ self' = r.self
            /\ genprod' = r.genprod
            /\ subdir' = r.subdir
            /\ IF r.res = "ok"
               THEN /\ proc' = [invocations |-> 1, exit |-> "none",
                                built |-> SanitizedEnv(environ),
                                env |-> subprocess_env(SanitizedEnv(environ),
                                                       get_clean_env(environ, dropped))]
                    /\ pc' = "subprocess"
                    /\ trace' = trace \o StartEvent("compile_gridpack")
                    /\ UNCHANGED <<result, inRun>>
               ELSE /\ proc' = NoProc
                    /\ Return("compile_gridpack", r.res)
                    /\ trace' = trace \o StartEvent("compile_gridpack")
                                       \o EndEvent("compile_gridpack", r.res)
    /\ lastOp' = StageOp("compile_gridpack", inRun)
    /\ UNCHANGED <<config, templates, modelDir, inputDir, archive, written, outDirs,
                   environ, dropped>>

\* The generation script runs to its end, building in the subdirectory: it
\* leaves the log and the tarball on success, and on failure a log or nothing.
SubprocessExit ==
    /\ pc = "subprocess"
    /\ \E code \in {"0", "1"}, log \in BOOLEAN :
         /\ code = "0" => log
         /\ genprod' = genprod \cup (IF log THEN {LogName} ELSE {})
                               \cup (IF code = "0" THEN {TarballName} ELSE {})
         /\ proc' = [proc EXCEPT !.exit = code]
    /\ subdir' = "built"
    /\ pc' = "returned"
    /\ UNCHANGED <<inRun, trace, result, lastOp, config, self, templates, modelDir,
                   inputDir, archive, written, outDirs, environ, dropped>>

\* The except clause opening the log without asking whether it is a file.
failure_handler_unguarded(log_isfile) ==
    IF log_isfile THEN "CalledProcessError" ELSE "IOError"

\* The except clause: the log is shown if it is a file, then the exception
\* is re-raised.
failure_handler(log_isfile) == "CalledProcessError"

\* The cleanup done in a finally clause: on failure too.
compile_finish_always_cleans(o, gp, sd, exit) ==
    [res |-> IF exit = "0" THEN "ok" ELSE failure_handler(LogName \in gp),
     genprod |-> IF o.cleanup_gp_generation_dir THEN gp \ {SubdirName} ELSE gp,
     subdir |-> IF o.cleanup_gp_generation_dir THEN "none" ELSE sd]

\* compile_gridpack after run_multiple_commands returned or raised:
\* [res, genprod, subdir].  shutil.rmtree(self.model_name) is in the try
\* block, after the call.
compile_finish(o, gp, sd, exit) ==
    IF exit = "0"
    THEN IF o.cleanup_gp_generation_dir
         THEN [res |-> "ok", genprod |-> gp \ {SubdirName}, subdir |-> "none"]
         ELSE [res |-> "ok", genprod |-> gp, subdir |-> sd]
    ELSE [res |-> failure_handler(LogName \in gp), genprod |-> gp, subdir |-> sd]

CompileFinish ==
    /\ pc = "returned"
    /\ LET r == compile_finish(self, genprod, subdir, proc.exit)
       IN /\ genprod' = r.genprod
          /\ subdir' = r.subdir
          /\ Return("compile_gridpack", r.res)
          /\ trace' = trace \o EndEvent("compile_gridpack", r.res)
    /\ proc' = [proc EXCEPT !.env = NoEnv, !.built = {}]
    /\ UNCHANGED <<lastOp, config, self, templates, modelDir, inputDir, archive,
                   written, outDirs, environ, dropped>>


\* ---------------------------------------------------------- output transfer
\* _get_output_files_and_dirs: glob of <model_name>* in mg_genprod_dir.
get_output_files_and_dirs(gp) == GlobPrefix(gp, MODEL)

\* Whether the file self.logfile names is there.
LogfileExists(o, gp, outs) ==
    /\ o.logfile.set
    /\ IF o.logfile.dir = GenprodDir
       THEN o.logfile.name \in gp
       ELSE outs[o.logfile.dir].exists /\ o.logfile.name \in outs[o.logfile.dir].files

\* _make_output_directory letting a directory that exists pass.
make_output_directory_lenient(exists) == create_directory(exists, FALSE, FALSE)

\* _make_output_directory: create_directory(output_dir, must_not_exist=True);
\* its OSError is logged and re-raised.
make_output_directory(exists) == create_directory(exists, FALSE, TRUE)

\* One pass of the loop of _transfer_to_output, st = [genprod, out, logfile, err].
\* shutil.move takes files and directories; shutil.copyfile raises on a directory.
TransferOne(st, src, d, move, dry) ==
    LET moved == IF dry THEN st
                 ELSE IF move
                 THEN [st EXCEPT !.genprod = @ \ {src}, !.out = @ \cup {src}]
                 ELSE IF src = SubdirName
                 THEN [st EXCEPT !.err = "IOError"]
                 ELSE [st EXCEPT !.out = @ \cup {src}]
    IN IF moved.err = "ok" /\ EndsWith(src, ".log")
       THEN [moved EXCEPT !.logfile = [set |-> TRUE, dir |-> d, name |-> src]]
       ELSE moved

RECURSIVE TransferAll(_, _, _, _, _, _)
TransferAll(order, i, st, d, move, dry) ==
    IF i > Len(order) \/ st.err # "ok" THEN st
    ELSE TransferAll(order, i + 1, TransferOne(st, order[i], d, move, dry), d, move, dry)

\* _transfer_to_output with the destination resolved to d and the sources in
\* glob's order: [genprod, outdir, logfile, err].  _make_output_directory runs
\* before the loop and raises OSError on a directory that exists.
transfer_to_output(order, gp, outdir, logfile, d, move, dry) ==
    IF make_output_directory(outdir.exists) = "OSError"
    THEN [genprod |-> gp, outdir |-> outdir, logfile |-> logfile, err |-> "OSError"]
    ELSE LET st == TransferAll(order, 1,
                               [genprod |-> gp, out |-> outdir.files,
                                logfile |-> logfile, err |-> "ok"], d, move, dry)
         IN [genprod |-> st.genprod, outdir |-> [exists |-> TRUE, files |-> st.out],
             logfile |-> st.logfile, err |-> st.err]

\* The orders of the sources that can end differently: the loop stops midway
\* only in shutil.copyfile, so a move or a dry run ends the same in any order.
GlobOrders(srcs, move, dry) ==
    IF move \/ dry THEN {CHOOSE o \in Orders(srcs) : TRUE} ELSE Orders(srcs)

\* The destination _make_output_directory works on: the caller's output_dir,
\* or for None a path named after the minute of the call, taken or free.
ResolveOutputDir(output_dir) == IF output_dir = None THEN OutDirs ELSE {output_dir}

\* _transfer_to_output with the destination resolved to d.
TransferToOutput(move, d, dry) ==
    /\ pc = "idle" /\ ~inRun
    /\ \E order \in GlobOrders(get_output_files_and_dirs(genprod), move, dry) :
         LET r == transfer_to_output(order, genprod, outDirs[d], self.logfile,
                                     d, move, dry)
         IN /\ genprod' = r.genprod
            /\ subdir' = IF SubdirName \in r.genprod THEN subdir ELSE "none"
            /\ outDirs' = [outDirs EXCEPT ![d] = r.outdir]
            /\ self' = [self EXCEPT !.logfile = r.logfile]
            /\ result' = r.err
    /\ lastOp' = [op |-> IF move THEN "move_to_output" ELSE "copy_to_output",
                  via_run |-> FALSE, dest |-> d]
    /\ UNCHANGED <<pc, inRun, trace, config, templates, modelDir, inputDir, archive,
                   written, proc, environ, dropped>>

CopyToOutput ==
    \E output_dir \in OutDirs \cup {None}, dry \in BOOLEAN :
        \E d \in ResolveOutputDir(output_dir) : TransferToOutput(FALSE, d, dry)

MoveToOutput ==
    \E output_dir \in OutDirs \cup {None}, dry \in BOOLEAN :
        \E d \in ResolveOutputDir(output_dir) : TransferToOutput(TRUE, d, dry)

\* get_mg_crosssection: the parser is given self.logfile; it reads the file
\* and finds a cross section in it or not (parsed).
GetMgCrosssection ==
    /\ pc = "idle" /\ ~inRun
    /\ \E parsed \in BOOLEAN :
         result' = IF ~self.logfile.set THEN "AttributeError"
                   ELSE IF ~LogfileExists(self, genprod, outDirs) THEN "IOError"
                   ELSE IF parsed THEN "ok" ELSE "ParseError"
    /\ lastOp' = Op("get_mg_crosssection")
    /\ FsUnchanged
    /\ UNCHANGED <<pc, inRun, trace, config, self, written, proc>>

\* The caller sets one of the switches __init__ defaults to True.
SetSwitch(switched) ==
    /\ pc = "idle" /\ ~inRun
    /\ self' = switched
    /\ self' # self
    /\ FsUnchanged
    /\ UNCHANGED <<pc, inRun, trace, result, lastOp, config, written, proc>>

SetForceRenewModelDir ==
    \E v \in BOOLEAN : SetSwitch([self EXCEPT !.force_renew_model_dir = v])
SetForceRenewInputDir ==
    \E v \in BOOLEAN : SetSwitch([self EXCEPT !.force_renew_input_dir = v])
SetForceRenewGridpackDir ==
    \E v \in BOOLEAN : SetSwitch([self EXCEPT !.force_renew_gridpack_dir = v])
SetCleanupGpGenerationDir ==
    \E v \in BOOLEAN : SetSwitch([self EXCEPT !.cleanup_gp_generation_dir = v])

\* ------------------------------------------------------------ specifications
Configs ==
    [process_type : ProcessTypes, lowmassZ : BOOLEAN, year : Years,
     n_events : {"absent", "50000"}]

TemplateDirs == {T \in SUBSET TemplateDirNames : Cardinality(T) <= MaxTemplates}

\* An output directory left by an earlier transfer.
StaleDir == [exists |-> TRUE, files |-> {<<"old_model", "_tarball.tar.xz">>}]

\* The parent environment and the helper's behaviour where no claim reads them.
PlainWorld ==
    /\ environ = EnvVars
    /\ dropped = Range(to_unset)

\* Before __init__: any configuration, the deployment's template directory,
\* a generation working directory with or without the script, the model
\* directory of an earlier run or none.
InitPaths ==
    /\ pc = "new"
    /\ inRun = FALSE
    /\ trace = <<>>
    /\ result = "none"
    /\ lastOp = Op("none")
    /\ config \in Configs
    /\ self = NewObject
    /\ templates \in TemplateDirs
    /\ modelDir \in {AbsentDir, [exists |-> TRUE, files |-> TemplateModelFiles]}
    /\ inputDir = AbsentDir
    /\ archive = NoArchive
    /\ written = {}
    /\ genprod \in {{ScriptName, OtherLogName}, {OtherLogName}}
    /\ subdir = "none"
    /\ outDirs = [d \in OutDirs |-> AbsentDir]
    /\ proc = NoProc
    /\ PlainWorld

\* Construction and path resolution.
NextPaths ==
    \/ Construct
    \/ DefinePaths

SpecPaths == InitPaths /\ [][NextPaths]_vars

\* Before __init__ of an s-channel object: the year and the event count of
\* the configuration vary, and so do the template directory and the presence
\* of the generation script.
Init ==
    /\ pc = "new"
    /\ inRun = FALSE
    /\ trace = <<>>
    /\ result = "none"
    /\ lastOp = Op("none")
    /\ config \in {c \in Configs : c.process_type = <<"s", "-channel">> /\ ~c.lowmassZ}
    /\ self = NewObject
    /\ templates \in TemplateDirs
    /\ modelDir = AbsentDir
    /\ inputDir = AbsentDir
    /\ archive = NoArchive
    /\ written = {}
    /\ genprod \in {{ScriptName, OtherLogName}, {OtherLogName}}
    /\ subdir = "none"
    /\ outDirs = [d \in OutDirs |-> AbsentDir]
    /\ proc = NoProc
    /\ PlainWorld

\* The generation pipeline: construction and the three stages, alone or
\* under run_gridpack_generation.
Next ==
    \/ Construct
    \/ SetForceRenewModelDir
    \/ SetForceRenewInputDir
    \/ RunGridpackGeneration
    \/ SetupModelDir
    \/ SetupInputDir
    \/ CompileGridpack
    \/ SubprocessExit
    \/ CompileFinish

Spec == Init /\ [][Next]_vars

\* A constructed object of the s-channel after setup_model_dir and
\* setup_input_dir.
SetUpConfig ==
    [process_type |-> <<"s", "-channel">>, lowmassZ |-> FALSE, year |-> "2018",
     n_events |-> "absent"]

SetUpObject ==
    define_paths(set_class_variables_from_config(NewObject, SetUpConfig), SetUpConfig).self

\* The directories after the set-up, new_input_dir being assigned or not.
SetUpDirs ==
    /\ templates = {}
    /\ modelDir = [exists |-> TRUE, files |-> TemplateModelFiles \cup {"param_card.dat"}]
    /\ inputDir = IF self.new_input_dir THEN EmptyDir ELSE AbsentDir
    /\ archive = IF self.new_input_dir
                 THEN make_archive(modelDir).archive ELSE NoArchive
    /\ written = {}

Between ==
    /\ pc = "idle"
    /\ inRun = FALSE
    /\ trace = <<>>
    /\ result = "ok"
    /\ lastOp = Op("none")
    /\ config = SetUpConfig
    /\ proc = NoProc

\* The object set up, or one whose setup_input_dir was never called, in a
\* generation working directory with or without the script and with or
\* without the subdirectory of an earlier run.
InitCompile ==
    /\ Between
    /\ \E b \in BOOLEAN : self = [SetUpObject EXCEPT !.new_input_dir = b]
    /\ SetUpDirs
    /\ genprod \in {S \cup {OtherLogName} : S \in SUBSET {ScriptName, SubdirName}}
    /\ subdir = IF SubdirName \in genprod THEN "old" ELSE "none"
    /\ outDirs = [d \in OutDirs |-> AbsentDir]
    /\ PlainWorld

\* Compilation under every setting of its two switches.
NextCompile ==
    \/ SetForceRenewGridpackDir
    \/ SetCleanupGpGenerationDir
    \/ CompileGridpack
    \/ SubprocessExit
    \/ CompileFinish

SpecCompile == InitCompile /\ [][NextCompile]_vars

\* The object set up, with either setting of cleanup_gp_generation_dir, in a
\* generation working directory with the script, with or without the
\* subdirectory of an earlier run, and with output paths free or taken.
InitOutput ==
    /\ Between
    /\ \E c \in BOOLEAN :
         self = [SetUpObject EXCEPT !.new_input_dir = TRUE,
                                    !.cleanup_gp_generation_dir = c]
    /\ SetUpDirs
    /\ genprod \in {{ScriptName, OtherLogName}, {ScriptName, OtherLogName, SubdirName}}
    /\ subdir = IF SubdirName \in genprod THEN "old" ELSE "none"
    /\ outDirs \in [OutDirs -> {AbsentDir, StaleDir}]
    /\ PlainWorld

\* Compilation, the transfers to an output directory and the cross section.
NextOutput ==
    \/ CompileGridpack
    \/ SubprocessExit
    \/ CompileFinish
    \/ CopyToOutput
    \/ MoveToOutput
    \/ GetMgCrosssection

SpecOutput == InitOutput /\ [][NextOutput]_vars

\* Compilation under every parent environment and every set of variables the
\* helper may leave out.
InitEnv ==
    /\ Between
    /\ self = [SetUpObject EXCEPT !.new_input_dir = TRUE]
    /\ SetUpDirs
    /\ genprod = {ScriptName}
    /\ subdir = "none"
    /\ outDirs = [d \in OutDirs |-> AbsentDir]
    /\ environ \in SUBSET EnvVars
    /\ dropped \in SUBSET EnvVars

NextEnv ==
    \/ CompileGridpack
    \/ SubprocessExit
    \/ CompileFinish

SpecEnv == InitEnv /\ [][NextEnv]_vars


\* ==================================================================== claims
Transfers == {"copy_to_output", "move_to_output"}
DatTemplates == GlobSuffix(templates, ".dat")
Artifacts == <<templates, modelDir, inputDir, archive, genprod, subdir, outDirs>>
Switches(o) ==
    <<o.force_renew_model_dir, o.force_renew_input_dir, o.force_renew_gridpack_dir,
      o.cleanup_gp_generation_dir>>
\* A step of copy_to_output or move_to_output whose destination is d: the
\* only steps between calls that name a transfer and leave the switches.
TransferStepTo(d) ==
    /\ pc = "idle" /\ pc' = "idle"
    /\ lastOp'.op \in Transfers /\ lastOp'.dest = d
    /\ Switches(self') = Switches(self)
    /\ vars' # vars

\* C1: when the generation subprocess exits non-zero, compile_gridpack ends
\* by raising that CalledProcessError, whether <model_name>.log exists or
\* not, after exactly one invocation of the subprocess.
C1_FailurePropagated ==
    (lastOp.op = "compile_gridpack" /\ pc = "idle" /\ proc.exit = "1")
        => (result = "CalledProcessError" /\ proc.invocations = 1)

\* C1 witness: a compile_gridpack whose subprocess failed and left no log.
C1_Witness ==
    /\ lastOp.op = "compile_gridpack" /\ pc = "idle" /\ proc.exit = "1"
    /\ LogName \notin genprod
    /\ result = "CalledProcessError"

\* C2: the stage events of a run_gridpack_generation call are, in this order,
\* start and end of setup_model_dir, of setup_input_dir and of
\* compile_gridpack, each at most once; a failed stage is the last event.
C2_StagesInOrder ==
    /\ Len(trace) <= 2 * Len(Stages)
    /\ \A i \in 1..Len(trace) :
         IF i % 2 = 1
         THEN trace[i] = <<"start", Stages[(i + 1) \div 2]>>
         ELSE /\ trace[i][2] = Stages[i \div 2]
              /\ trace[i][1] \in {"done", "fail"}
              /\ trace[i][1] = "fail" => i = Len(trace)
    /\ (Len(trace) > 0 /\ trace[Len(trace)][1] = "fail") => ~inRun

\* C2 witness: a run whose three stages all completed.
C2_Witness ==
    /\ Len(trace) = 6
    /\ trace[6] = <<"done", "compile_gridpack">>
    /\ pc = "idle"

\* C3: a transfer whose destination directory exists raises OSError and
\* changes nothing in the generation working directory, in the output
\* directories or in the object.
C3_ConflictLeavesArtifacts ==
    [][\A d \in OutDirs :
          (TransferStepTo(d) /\ outDirs[d].exists)
              => (result' = "OSError" /\ genprod' = genprod /\ subdir' = subdir
                  /\ outDirs' = outDirs /\ self' = self)]_vars

\* C3 witness: a transfer refused while artifacts of the model are in the
\* generation working directory.
C3_Witness ==
    /\ lastOp.op \in Transfers /\ result = "OSError"
    /\ {LogName, TarballName} \subseteq get_output_files_and_dirs(genprod)

\* C4 (as claimed): after setup_input_dir succeeded there are as many out
\* files as *.dat templates, no format field is left in them, and the tar
\* archive holds every one of them.
C4_ArchiveHoldsOutputs ==
    (lastOp.op = "setup_input_dir" /\ result = "ok")
        => /\ Cardinality(written) = Cardinality(DatTemplates)
           /\ \A f \in inputDir.files :
                f.name \in written => Range(f.text) \cap FormatFields = {}
           /\ archive.exists
           /\ \A name \in written : InputPath(name) \in archive.members

\* C5 (as claimed): with a year that is not in lhaIDs, setup_input_dir raises
\* KeyError and writes no out file, whatever the template directory holds.
C5_LookupFailsAlways ==
    (lastOp.op = "setup_input_dir" /\ self.year \notin DOMAIN lhaIDs)
        => (result = "KeyError" /\ written = {})

\* C5 (amended): with a year that is not in lhaIDs and at least one *.dat
\* template, setup_input_dir raises KeyError and writes no out file.
C5_LookupFailsOnFirstTemplate ==
    (lastOp.op = "setup_input_dir" /\ self.year \notin DOMAIN lhaIDs
     /\ DatTemplates # {})
        => (result = "KeyError" /\ written = {} /\ inputDir.files = {})

\* C5 witness: the lookup failed with two templates waiting.
C5_Witness ==
    /\ lastOp.op = "setup_input_dir" /\ self.year \notin DOMAIN lhaIDs
    /\ Cardinality(DatTemplates) = 2
    /\ result = "KeyError"

\* C6: define_paths on a channel other than 's' and 't' raises ValueError and
\* leaves every directory as it was.
C6_UnknownChannelRaises ==
    [][((Construct \/ DefinePaths) /\ self'.channel \notin {<<"s">>, <<"t">>})
          => (result' = "ValueError" /\ UNCHANGED Artifacts)]_vars

\* C6 witness: define_paths re-called on a constructed object whose channel
\* was set to an unknown value.
C6_Witness ==
    /\ lastOp.op = "define_paths" /\ pc = "idle"
    /\ self.channel = <<"u">>
    /\ result = "ValueError"

\* C7 (as claimed): the subprocess runs in the environment the driver built
\* from os.environ and to_unset, which holds none of the to_unset variables.
C7_SubprocessGetsDriverEnv ==
    pc = "subprocess"
        => /\ proc.env.source = "env"
           /\ proc.env.vars = proc.built
           /\ proc.env.vars \cap Range(to_unset) = {}

\* C8 (as claimed): after a transfer that pointed self.logfile into an output
\* directory, the log file is at that path.
C8_LogfileNamesTheLog ==
    (pc = "idle" /\ lastOp.op \in Transfers /\ result = "ok"
     /\ self.logfile.set /\ self.logfile.dir # GenprodDir)
        => LogfileExists(self, genprod, outDirs)

\* C9: the step after the subprocess deletes the per-run subdirectory, and
\* nothing else, when the subprocess succeeded and cleanup is on, leaving log
\* and tarball; after a failure it deletes nothing and the subdirectory stays.
C9_CleanupOnlyOnSuccess ==
    [][pc = "returned" =>
          IF proc.exit = "0"
          THEN /\ self.cleanup_gp_generation_dir => SubdirName \notin genprod'
               /\ ~self.cleanup_gp_generation_dir => genprod' = genprod
               /\ genprod' \cup {SubdirName} = genprod \cup {SubdirName}
               /\ {LogName, TarballName} \subseteq genprod'
          ELSE genprod' = genprod /\ subdir' = subdir /\ subdir = "built"]_vars

\* C9 witness: a successful compile_gridpack that cleaned up.
C9_Witness ==
    /\ lastOp.op = "compile_gridpack" /\ pc = "idle" /\ result = "ok"
    /\ proc.exit = "0"
    /\ SubdirName \notin genprod
    /\ {LogName, TarballName} \subseteq genprod

\* C10: compile_gridpack without gridpack_generation.sh in the generation
\* working directory raises AssertionError, leaves the directory as it was
\* and invokes no subprocess.
C10_MissingScriptFailsFast ==
    [][(CompileGridpack /\ ScriptName \notin genprod)
          => (result' = "AssertionError" /\ pc' = "idle" /\ genprod' = genprod
              /\ subdir' = subdir /\ proc'.invocations = 0 /\ self' = self)]_vars

\* C10 witness: the assertion failed with the subdirectory of an earlier run
\* in place.
C10_Witness ==
    /\ lastOp.op = "compile_gridpack" /\ result = "AssertionError"
    /\ subdir = "old" /\ ScriptName \notin genprod

====
